---------------------------- MODULE Spec2Model ----------------------------
(***************************************************************************)
(* A model of untangle.c (the Untangle / Planarity puzzle):                *)
(*   - the exact segment-crossing predicate cross(),                       *)
(*   - the graph synthesis, scrambling and encoding of new_game_desc(),    *)
(*   - new_game(), dup_game(), free_game() and execute_move() over a heap  *)
(*     of game_state objects that share one reference-counted graph.       *)
(* Strings are sequences of one-character strings; a C int is a TLA+       *)
(* integer (every bound below keeps the products of cross() far inside     *)
(* 32 bits).                                                               *)
(***************************************************************************)
EXTENDS Integers, Sequences, FiniteSets, TLC

VARIABLES
    args,      \* cross(): the four points of the call, <<a1, a2, b1, b2>>
    result,    \* cross(): <<>> before the call returns, then <<return value>>
    n,         \* params->n
    pts,       \* new_game_desc: the scattered points, indexed 0..n-1
    vs,        \* new_game_desc: vs[i].param, the degree of vertex i
    edges,     \* new_game_desc: the edge tree, a set of <<a, b>> with a < b
    pc,        \* position in new_game_desc / in the life of the game
    tmp,       \* new_game_desc: the permutation array of the scrambling loop
    desc,      \* the game description string new_game_desc returns
    aux,       \* the aux_info string new_game_desc hands out
    graph,     \* the struct graph of the game: [refcount, edges, freed]
    states,    \* the heap of game_state objects, slot -> record or NoState
    last       \* the last call made on the heap and what it returned

vars == <<args, result, n, pts, vs, edges, pc, tmp, desc, aux, graph, states, last>>

\* ------------------------------------------------------------------ constants

PREFERRED_TILESIZE == 64
POINTDENSITY == 3
MAXDEGREE == 4
MinN == 4

\* ------------------------------------------------------------------ bounds

\* cross() is explored over numerators 0..MaxCoord and denominators 1..MaxDen.
MaxCoord == 2
MaxDen == 2

\* The whole of new_game_desc (Spec) is explored for the smallest legal n,
\* MinN, with the scattered points drawn from the grid cells 0..MaxCell (cell
\* c is the point (c % w, c / w)): each placement is scrambled by every
\* permutation.
MaxCell == 6

\* The edge synthesis alone (SpecSynth) is explored for n in MinN..MaxN, with
\* the points drawn from the cells 0..SynthCell.
MaxN == 6
SynthCell == 5

\* ------------------------------------------------------------------ helpers

min(a, b) == IF a < b THEN a ELSE b
max(a, b) == IF a < b THEN b ELSE a

Point(x, y, d) == [x |-> x, y |-> y, d |-> d]

\* ------------------------------------------------------------------ cross()

\* The first half of cross(): b1 and b2 against the line a1-a2, with the
\* collinear special case.  TRUE when the function has not yet returned FALSE.
crossFirstHalf(a1, a2, b1, b2) ==
    LET b1x == b1.x * a1.d - a1.x * b1.d
        b1y == b1.y * a1.d - a1.y * b1.d
        b2x == b2.x * a1.d - a1.x * b2.d
        b2y == b2.y * a1.d - a1.y * b2.d
        px  == a1.y * a2.d - a2.y * a1.d
        py  == a2.x * a1.d - a1.x * a2.d
        d1  == b1x * px + b1y * py
        d2  == b2x * px + b2y * py
        \* the collinear branch re-uses px, py, d1, d2
        qx  == a2.x * a1.d - a1.x * a2.d
        qy  == a2.y * a1.d - a1.y * a2.d
        e1  == b1x * qx + b1y * qy
        e2  == b2x * qx + b2y * qy
        d3  == qx * qx + qy * qy
    IN  IF (d1 > 0 /\ d2 > 0) \/ (d1 < 0 /\ d2 < 0) THEN FALSE
        ELSE IF d1 = 0 /\ d2 = 0
             THEN IF e1 < 0 /\ e2 < 0 THEN FALSE
                  ELSE IF e1 > d3 /\ e2 > d3 THEN FALSE
                  ELSE TRUE
             ELSE TRUE

\* The second half of cross(): a1 and a2 against the line b1-b2.
crossSecondHalf(a1, a2, b1, b2) ==
    LET b1x == a1.x * b1.d - b1.x * a1.d
        b1y == a1.y * b1.d - b1.y * a1.d
        b2x == a2.x * b1.d - b1.x * a2.d
        b2y == a2.y * b1.d - b1.y * a2.d
        px  == b1.y * b2.d - b2.y * b1.d
        py  == b2.x * b1.d - b1.x * b2.d
        d1  == b1x * px + b1y * py
        d2  == b2x * px + b2y * py
    IN  ~((d1 > 0 /\ d2 > 0) \/ (d1 < 0 /\ d2 < 0))

cross(a1, a2, b1, b2) ==
    crossFirstHalf(a1, a2, b1, b2) /\ crossSecondHalf(a1, a2, b1, b2)

\* ------------------------------------------------------------------ squarert(), COORDLIMIT

\* squarert(): the digit-by-digit integer square root; b starts at 1 << 30
\* and is shifted right by two until it is zero.
RECURSIVE squarertLoop(_, _, _)
squarertLoop(d, a, b) ==
    LET a1 == a \div 2
        di == 2 * a1 + b
        d2 == IF di <= d THEN d - di ELSE d
        a2 == IF di <= d THEN a1 + b ELSE a1
        b2 == b \div 4
    IN  IF b2 = 0 THEN a2 ELSE squarertLoop(d2, a2, b2)

squarert(k) == squarertLoop(k, 0, 1073741824)

COORDLIMIT(nn) == squarert(nn * POINTDENSITY)

\* ------------------------------------------------------------------ make_circle()

\* (int)(c + r*sin(angle) + 0.5) and (int)(c - r*cos(angle) + 0.5) of
\* make_circle for c = d*w/2, r = d*w*3/7, d = 64, w = COORDLIMIT(nn),
\* angle = i*2*PI/nn, as IEEE-754 double arithmetic evaluates them (the
\* rounding of cos(pi/3) and cos(2*pi/3) shows in nn = 6: 73 against 182,
\* 183).  TLA+ has no floating point, so the values are tabulated.
circleXY(nn) ==
    CASE nn = 4 -> << <<96,14>>, <<178,96>>, <<96,178>>, <<14,96>> >>
      [] nn = 5 -> << <<96,14>>, <<174,71>>, <<144,162>>, <<48,162>>, <<18,71>> >>
      [] nn = 6 -> << <<128,19>>, <<222,73>>, <<222,182>>, <<128,237>>, <<34,183>>,
                      <<34,73>> >>
      [] nn = 7 -> << <<128,19>>, <<213,60>>, <<234,152>>, <<175,226>>, <<81,226>>,
                      <<22,152>>, <<43,60>> >>
      [] nn = 8 -> << <<128,19>>, <<205,51>>, <<237,128>>, <<205,205>>, <<128,237>>,
                      <<51,205>>, <<19,128>>, <<51,51>> >>

\* make_circle(pts, n, w): the n points of the circle, as an array 0..n-1.
\* Both callers pass w = COORDLIMIT(n), which is what circleXY tabulates.
make_circle(nn, w) ==
    LET d == PREFERRED_TILESIZE
    IN  [i \in 0..(nn - 1) |->
            Point(circleXY(nn)[i + 1][1], circleXY(nn)[i + 1][2], d)]

\* ------------------------------------------------------------------ SpecCross

CrossPoints == { Point(x, y, d) : x \in 0..MaxCoord, y \in 0..MaxCoord, d \in 1..MaxDen }

NoGame == [refcount |-> 0, edges |-> {}, freed |-> FALSE]
NoCall == [op |-> "none"]

\* Everything but args and result, parked.
Parked ==
    /\ n = 0 /\ pts = <<>> /\ vs = <<>> /\ edges = {} /\ pc = "cross"
    /\ tmp = <<>> /\ desc = <<>> /\ aux = <<>>
    /\ graph = NoGame /\ states = <<>> /\ last = NoCall

InitCross ==
    /\ args \in CrossPoints \X CrossPoints \X CrossPoints \X CrossPoints
    /\ result = <<>>
    /\ Parked

CallCross ==
    /\ pc = "cross" /\ result = <<>>
    /\ result' = << cross(args[1], args[2], args[3], args[4]) >>
    /\ UNCHANGED <<args, n, pts, vs, edges, pc, tmp, desc, aux, graph, states, last>>

NextCross == CallCross

SpecCross == InitCross /\ [][NextCross]_vars


\* ------------------------------------------------------------------ edges and vertices

\* addedge(): the edge is stored as (min, max).
addedge(E, a, b) == E \cup { <<min(a, b), max(a, b)>> }

isedge(E, a, b) == <<min(a, b), max(a, b)>> \in E

\* edgecmp(e, f) < 0: the order of the edge tree, by a and then by b.
edgecmp(e, f) == e[1] < f[1] \/ (e[1] = f[1] /\ e[2] < f[2])

\* vertcmp(a, b) < 0 on records (param, vindex).
vertcmp(pa, va, pb, vb) == pa < pb \/ (pa = pb /\ va < vb)

\* index234(vertices, i): the vertex at position i of the vertex tree, which
\* is kept sorted by (degree, index) by the del234/add234 pairs.
index234v(deg, nn, i) ==
    CHOOSE v \in 0..(nn - 1) :
        Cardinality({ u \in 0..(nn - 1) : vertcmp(deg[u], u, deg[v], v) }) = i

\* ------------------------------------------------------------------ new_game_desc: synthesis

\* The squared distance stored in vlist[m].param.
dist2(P, ki, j) ==
    LET dx == P[ki].x - P[j].x
        dy == P[ki].y - P[j].y
    IN  dx * dx + dy * dy

\* vlist with the degree test on the far end left out (mutant of vlist).
vlistAnyDegree(E, deg, nn, i) ==
    { ki \in 0..(nn - 1) :
        /\ vertcmp(deg[index234v(deg, nn, i)], index234v(deg, nn, i), deg[ki], ki)
        /\ ~isedge(E, ki, index234v(deg, nn, i)) }

\* vlist for the vertex at tree position i: the vertices at later positions
\* with degree below MAXDEGREE and no edge to j yet.
vlist(E, deg, nn, i) ==
    LET j == index234v(deg, nn, i)
    IN  { ki \in 0..(nn - 1) :
            /\ vertcmp(deg[j], j, deg[ki], ki)
            /\ ~(deg[ki] >= MAXDEGREE \/ isedge(E, ki, j)) }

\* The two inner scans: the edge ki-j meets no third point and crosses no
\* existing edge that shares no endpoint with it.
edgeFits(P, E, nn, j, ki) ==
    /\ \A p \in 0..(nn - 1) :
            (p # ki /\ p # j) => ~cross(P[ki], P[j], P[p], P[p])
    /\ \A e \in E :
            (e[1] # ki /\ e[1] # j /\ e[2] # ki /\ e[2] # j)
                => ~cross(P[ki], P[j], P[e[1]], P[e[2]])

\* The round giving up at the first vertex that finds no partner, instead
\* of going on to the next vertex (mutant of scanVertices).
scanVerticesFirstOnly(P, E, deg, nn, i) ==
    LET j  == index234v(deg, nn, i)
        ok == { ki \in vlist(E, deg, nn, i) : edgeFits(P, E, nn, j, ki) }
    IN  IF i >= nn \/ deg[j] >= MAXDEGREE \/ ok = {} THEN <<>>
        ELSE <<j, CHOOSE c \in ok : \A o \in ok \ {c} :
                      vertcmp(dist2(P, c, j), c, dist2(P, o, j), o)>>

\* The for (i ...) loop of one round: <<j, ki>> for the edge the round adds,
\* <<>> when it adds none.  Candidates are tried in qsort order, by distance
\* and then by index.
RECURSIVE scanVertices(_, _, _, _, _)
scanVertices(P, E, deg, nn, i) ==
    IF i >= nn THEN <<>>
    ELSE LET j  == index234v(deg, nn, i)
             ok == { ki \in vlist(E, deg, nn, i) : edgeFits(P, E, nn, j, ki) }
             ki == CHOOSE c \in ok : \A o \in ok \ {c} :
                       vertcmp(dist2(P, c, j), c, dist2(P, o, j), o)
         IN  IF deg[j] >= MAXDEGREE THEN <<>>
             ELSE IF ok # {} THEN <<j, ki>>
             ELSE scanVertices(P, E, deg, nn, i + 1)

\* ------------------------------------------------------------------ crossing search

\* The double loop shared by the scrambler and by execute_move: some pair of
\* edges e before e2 in tree order, without a common endpoint, has
\* cross(P[e2.a], P[e2.b], P[e.a], P[e.b]).
findCrossing(E, P) ==
    \E e \in E : \E e2 \in E :
        /\ edgecmp(e, e2)
        /\ ~(e2[1] = e[1] \/ e2[1] = e[2] \/ e2[2] = e[1] \/ e2[2] = e[2])
        /\ cross(P[e2[1]], P[e2[2]], P[e[1]], P[e[2]])


\* ------------------------------------------------------------------ strings

\* A C string is a sequence of one-character strings; NUL is what *p reads
\* at its end.
NUL == "NUL"

At(str, p) == IF p >= 1 /\ p <= Len(str) THEN str[p] ELSE NUL

Digits == <<"0", "1", "2", "3", "4", "5", "6", "7", "8", "9">>

isdigit(c) == \E k \in 1..10 : Digits[k] = c

DigitVal(c) == (CHOOSE k \in 1..10 : Digits[k] = c) - 1

\* sprintf("%d", k)
RECURSIVE Dec(_)
Dec(k) ==
    IF k < 0 THEN <<"-">> \o Dec(0 - k)
    ELSE IF k < 10 THEN << Digits[k + 1] >>
    ELSE Dec(k \div 10) \o << Digits[(k % 10) + 1] >>

\* The position after the run of digits that starts at p, as in
\* while (*desc && isdigit(*desc)) desc++.
RECURSIVE skipDigits(_, _)
skipDigits(str, p) ==
    IF isdigit(At(str, p)) THEN skipDigits(str, p + 1) ELSE p

\* The value of the digits str[p..q-1].
RECURSIVE digitsValue(_, _, _, _)
digitsValue(str, p, q, acc) ==
    IF p >= q THEN acc
    ELSE digitsValue(str, p + 1, q, acc * 10 + DigitVal(str[p]))

RECURSIVE skipSpace(_, _)
skipSpace(str, p) ==
    IF At(str, p) = " " THEN skipSpace(str, p + 1) ELSE p

\* A %d conversion (and strtol inside atoi) at position p: white space, an
\* optional sign, then digits.  ok is FALSE when no digit follows.  The
\* steps are chained through parameters: p0 is the position after the white
\* space, p1 after the sign, p2 after the digits.
scanDigits(str, neg, p1, p2) ==
    [ok   |-> p2 > p1,
     val  |-> IF neg THEN 0 - digitsValue(str, p1, p2, 0)
                     ELSE digitsValue(str, p1, p2, 0),
     next |-> p2]

scanSign(str, neg, p1) == scanDigits(str, neg, p1, skipDigits(str, p1))

scanSpace(str, p0) ==
    scanSign(str, At(str, p0) = "-",
             IF At(str, p0) \in {"-", "+"} THEN p0 + 1 ELSE p0)

scanInt(str, p) == scanSpace(str, skipSpace(str, p))

\* atoi(str + p - 1): 0 when no number starts there.
atoiValue(i) == IF i.ok THEN i.val ELSE 0

atoi(str, p) == atoiValue(scanInt(str, p))

\* sscanf(str + p - 1, "%d:%d,%d/%d%n", &p, &x, &y, &d, &k) == 4, with
\* next = p + k: four %d conversions with the literals ':', ',' and '/'
\* between them.
NoPoint == [ok |-> FALSE, p |-> 0, x |-> 0, y |-> 0, d |-> 0, next |-> 0]

sscanf4(str, i1, i2, i3, i4) ==
    IF i4.ok
    THEN [ok |-> TRUE, p |-> i1.val, x |-> i2.val, y |-> i3.val, d |-> i4.val,
          next |-> i4.next]
    ELSE NoPoint

sscanf3(str, i1, i2, i3) ==
    IF i3.ok /\ At(str, i3.next) = "/"
    THEN sscanf4(str, i1, i2, i3, scanInt(str, i3.next + 1))
    ELSE NoPoint

sscanf2(str, i1, i2) ==
    IF i2.ok /\ At(str, i2.next) = ","
    THEN sscanf3(str, i1, i2, scanInt(str, i2.next + 1))
    ELSE NoPoint

sscanf1(str, i1) ==
    IF i1.ok /\ At(str, i1.next) = ":"
    THEN sscanf2(str, i1, scanInt(str, i1.next + 1))
    ELSE NoPoint

sscanfPoint(str, p) == sscanf1(str, scanInt(str, p))

\* ------------------------------------------------------------------ new_game_desc: encoding

\* qsort(ea, m, sizeof(*ea), edgecmpC)
RECURSIVE sortEdges(_)
sortEdges(S) ==
    IF S = {} THEN <<>>
    ELSE LET m == CHOOSE e \in S : \A f \in S \ {e} : edgecmp(e, f)
         IN  <<m>> \o sortEdges(S \ {m})

\* ea[i] = (min(tmp[e->a], tmp[e->b]), max(tmp[e->a], tmp[e->b]))
renameEdges(E, t) == { <<min(t[e[1]], t[e[2]]), max(t[e[1]], t[e[2]])>> : e \in E }

\* sprintf(ret + k, "%s%d-%d", sep, ea[i].a, ea[i].b) over the sorted array
RECURSIVE printEdges(_, _)
printEdges(ea, i) ==
    IF i > Len(ea) THEN <<>>
    ELSE (IF i = 1 THEN <<>> ELSE <<",">>)
         \o Dec(ea[i][1]) \o <<"-">> \o Dec(ea[i][2]) \o printEdges(ea, i + 1)

\* The description written without the qsort of line 572: the renamed
\* edges in the order of the edge tree (mutant of encodeDesc).
encodeDescUnsorted(E, t) ==
    printEdges([i \in 1..Cardinality(E) |->
                   <<min(t[sortEdges(E)[i][1]], t[sortEdges(E)[i][2]]),
                     max(t[sortEdges(E)[i][1]], t[sortEdges(E)[i][2]])>>], 1)

encodeDesc(E, t) == printEdges(sortEdges(renameEdges(E, t)), 1)

\* The solution point written for one scattered point: doubled when its
\* denominator is odd, then moved by half a unit in x and y.
auxPoint(p) ==
    LET q == IF p.d % 2 = 1 THEN Point(p.x * 2, p.y * 2, p.d * 2) ELSE p
    IN  Point(q.x + q.d \div 2, q.y + q.d \div 2, q.d)

\* The solution written by vertex instead of by circle slot, pts2[i] =
\* auxPoint(pts[i]) (mutant of auxPts).
auxPtsBySource(P, t, nn) == [j \in 0..(nn - 1) |-> auxPoint(P[j])]

\* pts2 after the loop of lines 596-608: pts2[tmp[i]] = auxPoint(pts[i]).
auxPts(P, t, nn) ==
    [j \in 0..(nn - 1) |-> auxPoint(P[CHOOSE i \in 0..(nn - 1) : t[i] = j])]

\* sprintf(auxstr + k, ";P%d:%d,%d/%d", i, pts2[i].x, pts2[i].y, pts2[i].d)
RECURSIVE printPoints(_, _, _)
printPoints(P2, i, nn) ==
    IF i >= nn THEN <<>>
    ELSE <<";", "P">> \o Dec(i) \o <<":">> \o Dec(P2[i].x) \o <<",">>
         \o Dec(P2[i].y) \o <<"/">> \o Dec(P2[i].d) \o printPoints(P2, i + 1, nn)

encodeAux(P, t, nn) == <<"S">> \o printPoints(auxPts(P, t, nn), 0, nn)


\* ------------------------------------------------------------------ game_state, graph

\* Heap slots for game_state objects.
MaxStates == 3

Slots == 1..MaxStates

\* A freed (or never allocated) slot.
NoState == [live |-> FALSE, pts |-> <<>>, completed |-> FALSE,
            cheated |-> FALSE, just_solved |-> FALSE]

\* snew(game_state): the lowest free slot, 0 when the bound of the model is
\* reached.
snewState(S) ==
    IF \E r \in Slots : ~S[r].live
    THEN CHOOSE r \in Slots : ~S[r].live /\ \A q \in Slots : q < r => S[q].live
    ELSE 0

\* The while (*desc) loop of new_game: ok is FALSE when an assertion of
\* new_game or of addedge fails.  decodeEdge is one turn of the loop with a
\* and b read, p1 the position of the dash and p2 the position after b.
RECURSIVE decodeDesc(_, _, _, _)
decodeEdge(str, E, nn, a, p1, b, p2) ==
    IF ~(a >= 0 /\ a < nn) THEN [ok |-> FALSE, edges |-> E]
    ELSE IF At(str, p1) # "-" THEN [ok |-> FALSE, edges |-> E]
    ELSE IF ~(b >= 0 /\ b < nn) THEN [ok |-> FALSE, edges |-> E]
    ELSE IF At(str, p2) # NUL /\ At(str, p2) # "," THEN [ok |-> FALSE, edges |-> E]
    ELSE IF a = b THEN [ok |-> FALSE, edges |-> E]
    ELSE decodeDesc(str, IF At(str, p2) # NUL THEN p2 + 1 ELSE p2,
                    addedge(E, a, b), nn)

decodeDash(str, E, nn, a, p1) ==
    decodeEdge(str, E, nn, a, p1, atoi(str, p1 + 1), skipDigits(str, p1 + 1))

decodeDesc(str, p, E, nn) ==
    IF At(str, p) = NUL THEN [ok |-> TRUE, edges |-> E]
    ELSE decodeDash(str, E, nn, atoi(str, p), skipDigits(str, p))

\* validate_desc(params, desc) from position p: the error message, or
\* NoError for NULL.  validateEdge is one turn of the loop with a and b
\* read, p1 the position of the dash and p2 the position after b.
NoError == "NULL"

RECURSIVE validate_desc(_, _, _)
validateEdge(str, nn, a, p1, b, p2) ==
    IF a < 0 \/ a >= nn THEN "Number out of range in game description"
    ELSE IF At(str, p1) # "-" THEN "Expected '-' after number in game description"
    ELSE IF b < 0 \/ b >= nn THEN "Number out of range in game description"
    ELSE IF At(str, p2) # NUL /\ At(str, p2) # ","
         THEN "Expected ',' after number in game description"
    ELSE validate_desc(str, IF At(str, p2) # NUL THEN p2 + 1 ELSE p2, nn)

validateDash(str, nn, a, p1) ==
    validateEdge(str, nn, a, p1, atoi(str, p1 + 1), skipDigits(str, p1 + 1))

validate_desc(str, p, nn) ==
    IF At(str, p) = NUL THEN NoError
    ELSE validateDash(str, nn, atoi(str, p), skipDigits(str, p))

\* new_game(): the graph and the first game_state, in slot 1 of a fresh heap.
new_game(nn, str) ==
    [graph  |-> [refcount |-> 1, edges |-> decodeDesc(str, 1, {}, nn).edges,
                 freed |-> FALSE],
     states |-> [r \in Slots |->
                    IF r = 1
                    THEN [live |-> TRUE, pts |-> make_circle(nn, COORDLIMIT(nn)),
                          completed |-> FALSE, cheated |-> FALSE,
                          just_solved |-> FALSE]
                    ELSE NoState]]

\* dup_game without ret->graph->refcount++ (mutant of dup_game).
dup_gameNoRef(H, s) ==
    [graph  |-> H.graph,
     states |-> [H.states EXCEPT ![snewState(H.states)] = H.states[s]],
     ret    |-> snewState(H.states)]

\* dup_game(state) on the heap H = [graph, states]: a copy in a new slot,
\* sharing the graph, whose refcount goes up by one.
dup_game(H, s) ==
    LET r == snewState(H.states)
    IN  [graph  |-> [H.graph EXCEPT !.refcount = @ + 1],
         states |-> [H.states EXCEPT ![r] = H.states[s]],
         ret    |-> r]

\* free_game testing --refcount < 0 in place of <= 0 (mutant of free_game).
free_gameBelowZero(H, s) ==
    [graph  |-> IF H.graph.refcount - 1 < 0
                THEN [refcount |-> H.graph.refcount - 1, edges |-> {}, freed |-> TRUE]
                ELSE [H.graph EXCEPT !.refcount = H.graph.refcount - 1],
     states |-> [H.states EXCEPT ![s] = NoState]]

\* free_game(state): the graph goes when its refcount reaches zero.
free_game(H, s) ==
    LET rc == H.graph.refcount - 1
    IN  [graph  |-> IF rc <= 0
                    THEN [refcount |-> rc, edges |-> {}, freed |-> TRUE]
                    ELSE [H.graph EXCEPT !.refcount = rc],
         states |-> [H.states EXCEPT ![s] = NoState]]

\* The while (*move) loop of execute_move on the copy ret, from position p.
\* moveSolve handles a leading 'S', movePoint the 'P' token that must
\* follow, moveApply the update of one point.
RECURSIVE moveLoop(_, _, _, _)
RECURSIVE movePoint(_, _, _, _)
\* The 'S' branch without if (*move == ';') move++ (mutant of moveSolve).
moveSolveNoSep(ret, move, p, nn) ==
    IF At(move, p) = "S"
    THEN movePoint([ret EXCEPT !.cheated = TRUE, !.just_solved = TRUE], move, p + 1, nn)
    ELSE movePoint(ret, move, p, nn)

moveApply(ret, move, nn, sc) ==
    IF sc.ok /\ sc.p >= 0 /\ sc.p < nn /\ sc.d > 0
    THEN moveLoop([ret EXCEPT !.pts[sc.p] = Point(sc.x, sc.y, sc.d)], move,
                  IF At(move, sc.next) = ";" THEN sc.next + 1 ELSE sc.next, nn)
    ELSE [ok |-> FALSE, st |-> ret]

movePoint(ret, move, p, nn) ==
    IF At(move, p) = "P"
    THEN moveApply(ret, move, nn, sscanfPoint(move, p + 1))
    ELSE [ok |-> FALSE, st |-> ret]

moveSolve(ret, move, p, nn) ==
    IF At(move, p) = "S"
    THEN movePoint([ret EXCEPT !.cheated = TRUE, !.just_solved = TRUE], move,
                   IF At(move, p + 1) = ";" THEN p + 2 ELSE p + 1, nn)
    ELSE movePoint(ret, move, p, nn)

moveLoop(ret, move, p, nn) ==
    IF At(move, p) = NUL THEN [ok |-> TRUE, st |-> ret]
    ELSE moveSolve(ret, move, p, nn)

\* The check run also on a completed state (mutant of checkCompleted).
checkCompletedAlways(ret, E) ==
    [ret EXCEPT !.completed = ~findCrossing(E, ret.pts)]

\* The check with its result negated (mutant of checkCompleted).
checkCompletedInverted(ret, E) ==
    IF ~ret.completed
    THEN [ret EXCEPT !.completed = findCrossing(E, ret.pts)]
    ELSE ret

\* The correctness check at the end of execute_move.
checkCompleted(ret, E) ==
    IF ~ret.completed
    THEN [ret EXCEPT !.completed = ~findCrossing(E, ret.pts)]
    ELSE ret

\* The heap F with the value a call returns.
Returning(F, r) == [graph |-> F.graph, states |-> F.states, ret |-> r]

\* The end of execute_move: the checked copy is returned, or the copy is
\* freed and NULL (0) is returned.
moveEnd(D, res) ==
    IF res.ok
    THEN Returning([graph  |-> D.graph,
                    states |-> [D.states EXCEPT
                                   ![D.ret] = checkCompleted(res.st, D.graph.edges)]],
                   D.ret)
    ELSE Returning(free_game(D, D.ret), 0)

\* execute_move without ret->just_solved = FALSE (mutant of moveOnCopy).
moveOnCopyKeepFlag(D, move, nn) ==
    moveEnd(D, moveLoop(D.states[D.ret], move, 1, nn))

\* execute_move after ret = dup_game(state): D is the heap with the copy.
moveOnCopy(D, move, nn) ==
    moveEnd(D, moveLoop([D.states[D.ret] EXCEPT !.just_solved = FALSE], move, 1, nn))

\* execute_move(state, move) on the heap H: the new heap and the slot of the
\* returned state, 0 for NULL.
execute_move(H, s, move, nn) == moveOnCopy(dup_game(H, s), move, nn)

\* The move string interpret_move builds when a drag ends.
dragMove(p, pt) ==
    <<"P">> \o Dec(p) \o <<":">> \o Dec(pt.x) \o <<",">> \o Dec(pt.y)
    \o <<"/">> \o Dec(pt.d)


\* ------------------------------------------------------------------ Spec: new_game_desc, new_game, solve

NoCross == /\ args = <<>> /\ result = <<>>

Heap == [graph |-> graph, states |-> states]

Call(op, src, move, ret) == [op |-> op, src |-> src, move |-> move, ret |-> ret]

\* The permutations of 0..nn-1, the possible contents of tmp after shuffle().
Perms(nn) ==
    { t \in [0..(nn - 1) -> 0..(nn - 1)] : \A i, j \in 0..(nn - 1) : t[i] = t[j] => i = j }

\* The first n entries of the shuffled cell array: n distinct cells of the
\* w*w grid.
Placements(nn, maxcell) ==
    LET w == COORDLIMIT(nn)
        cells == { c \in 0..maxcell : c < w * w }
    IN  { [i \in 0..(nn - 1) |-> Point(t[i] % w, t[i] \div w, 1)] :
            t \in { u \in [0..(nn - 1) -> cells] :
                        \A i, j \in 0..(nn - 1) : u[i] = u[j] => i = j } }

\* new_game_desc after the points are chosen and the vertex and edge trees
\* are set up (lines 401-439).
Init ==
    /\ NoCross
    /\ n = MinN
    /\ pts \in Placements(n, MaxCell)
    /\ vs = [i \in 0..(n - 1) |-> 0]
    /\ edges = {}
    /\ pc = "synth"
    /\ tmp = <<>> /\ desc = <<>> /\ aux = <<>>
    /\ graph = NoGame /\ states = [r \in Slots |-> NoState] /\ last = NoCall

\* One round of the while (1) loop that adds an edge (lines 440-516).
AddEdge ==
    /\ pc = "synth"
    /\ \E f \in { scanVertices(pts, edges, vs, n, 0) } :
           /\ f # <<>>
           /\ edges' = addedge(edges, f[1], f[2])
           /\ vs' = [vs EXCEPT ![f[1]] = @ + 1, ![f[2]] = @ + 1]
    /\ UNCHANGED <<args, result, n, pts, pc, tmp, desc, aux, graph, states, last>>

\* The round that adds nothing ends the loop (lines 517-518); tmp is set to
\* the identity (lines 526-528).
SynthDone ==
    /\ pc = "synth"
    /\ scanVertices(pts, edges, vs, n, 0) = <<>>
    /\ pc' = "scramble"
    /\ tmp' = [i \in 0..(n - 1) |-> i]
    /\ UNCHANGED <<args, result, n, pts, vs, edges, desc, aux, graph, states, last>>

\* The scrambler testing pts2[e->a] in place of pts2[tmp[e->a]] (mutant of
\* scrambled).
scrambledIdentity(t, nn) ==
    [v \in 0..(nn - 1) |-> make_circle(nn, COORDLIMIT(nn))[v]]

\* The positions the scrambler tests: vertex v at circle slot t[v].
scrambled(t, nn) ==
    LET pts2 == make_circle(nn, COORDLIMIT(nn))
    IN  [v \in 0..(nn - 1) |-> pts2[t[v]]]

\* One round of the scrambling loop (lines 531-547): shuffle tmp, keep it
\* when the circle layout has a crossing.
Shuffle ==
    /\ pc = "scramble"
    /\ \E t \in Perms(n) :
        /\ tmp' = t
        /\ pc' = IF findCrossing(edges, scrambled(t, n)) THEN "encode" ELSE "scramble"
    /\ UNCHANGED <<args, result, n, pts, vs, edges, desc, aux, graph, states, last>>

\* The description and the aux string (lines 549-617); new_game_desc returns.
Encode ==
    /\ pc = "encode"
    /\ desc' = encodeDesc(edges, tmp)
    /\ aux' = encodeAux(pts, tmp, n)
    /\ pc' = "encoded"
    /\ UNCHANGED <<args, result, n, pts, vs, edges, tmp, graph, states, last>>

\* new_game(me, params, desc) on the description just returned.
NewGame ==
    /\ pc = "encoded"
    /\ decodeDesc(desc, 1, {}, n).ok
    /\ \E H \in { new_game(n, desc) } :
           /\ graph' = H.graph
           /\ states' = H.states
    /\ last' = Call("new_game", 0, desc, 1)
    /\ pc' = "play"
    /\ UNCHANGED <<args, result, n, pts, vs, edges, tmp, desc, aux>>

\* execute_move(states[s], move), for a live state and while the heap of the
\* model has room for the copy.
ExecuteMove(s, move) ==
    /\ states[s].live
    /\ snewState(states) # 0
    /\ \E out \in { execute_move(Heap, s, move, n) } :
           /\ graph' = out.graph
           /\ states' = out.states
           /\ last' = Call("execute_move", s, move, out.ret)
    /\ UNCHANGED <<args, result, n, pts, vs, edges, tmp, desc, aux>>

\* The moves made on a generated game before and after it is solved: the
\* empty move and a drag of vertex 0 to the middle of the board.
GenMoves(nn) ==
    { <<>>, dragMove(0, Point(COORDLIMIT(nn), COORDLIMIT(nn), 2)) }

\* A player's move on the generated game, before it is solved.
Play ==
    /\ pc = "play" /\ pc' = "moved"
    /\ \E s \in Slots : \E m \in GenMoves(n) : ExecuteMove(s, m)

\* solve_game returns the aux string, which is executed as a move on the
\* first state or on the one the player's move made.
Solve ==
    /\ pc \in {"play", "moved"} /\ pc' = "solved"
    /\ \E s \in Slots : ExecuteMove(s, aux)

Next == AddEdge \/ SynthDone \/ Shuffle \/ Encode \/ NewGame \/ Play \/ Solve

Spec == Init /\ [][Next]_vars

\* The draw that ends the scrambling loop (lines 545-546).
ShuffleOut == Shuffle /\ pc' = "encode"

\* A random source that draws every permutation again and again makes a
\* draw that ends the loop, as long as there is one.
SpecScrambleFair == Spec /\ WF_vars(ShuffleOut)

\* ------------------------------------------------------------------ SpecSynth: the edge synthesis

InitSynth ==
    /\ NoCross
    /\ n \in MinN..MaxN
    /\ pts \in Placements(n, SynthCell)
    /\ vs = [i \in 0..(n - 1) |-> 0]
    /\ edges = {}
    /\ pc = "synth"
    /\ tmp = <<>> /\ desc = <<>> /\ aux = <<>>
    /\ graph = NoGame /\ states = [r \in Slots |-> NoState] /\ last = NoCall

NextSynth == AddEdge \/ SynthDone

SpecSynth == InitSynth /\ [][NextSynth]_vars

\* The loop is sequential code: a round that can run does run.
SpecSynthFair == SpecSynth /\ WF_vars(NextSynth)


\* ------------------------------------------------------------------ SpecPlay: moves on a loaded game

\* The game description handed to new_game: the square 0-1-3-2-0.
SquareDesc ==
    <<"0", "-", "1", ",", "0", "-", "2", ",", "1", "-", "3", ",", "2", "-", "3">>

\* The circle slot k of the initial layout.
Slot(k) == make_circle(MinN, COORDLIMIT(MinN))[k]

\* The move text of a drag of vertex v to circle slot k.
ToSlot(v, k) == dragMove(v, Slot(k))

\* Two drags in one move; midend-built moves hold one drag, the string
\* format allows any number.
Both(m1, m2) == m1 \o <<";">> \o m2

\* Move strings given to execute_move: the empty move, drags that exchange
\* vertices 2 and 3 or put them back, a drag of vertex 2 onto slot 3, solve
\* moves, and strings with a fault after a well-formed start.
PlayMoves ==
    { <<>>,
      Both(ToSlot(2, 3), ToSlot(3, 2)),
      Both(ToSlot(2, 2), ToSlot(3, 3)),
      ToSlot(2, 3),
      <<"S", ";">> \o Both(ToSlot(2, 3), ToSlot(3, 2)),
      <<"S">>,
      Both(ToSlot(1, 2), dragMove(MinN, Slot(0))),
      Both(ToSlot(2, 3), dragMove(0, Point(Slot(0).x, Slot(0).y, 0))),
      <<"S", ";">> \o Both(ToSlot(2, 3), <<"X">>) }

\* The state after new_game on a description a user supplied.
InitPlay ==
    /\ NoCross
    /\ n = MinN
    /\ pts = <<>> /\ vs = <<>> /\ edges = {} /\ tmp = <<>> /\ aux = <<>>
    /\ pc = "play"
    /\ desc = SquareDesc
    /\ \E H \in { new_game(n, desc) } :
           /\ graph = H.graph
           /\ states = H.states
    /\ last = Call("new_game", 0, desc, 1)

\* execute_move on any live state.
PlayMove ==
    /\ \E s \in Slots : \E m \in PlayMoves : ExecuteMove(s, m)
    /\ UNCHANGED pc

\* dup_game(states[s]).
DupGame ==
    /\ \E s \in Slots :
        /\ states[s].live
        /\ snewState(states) # 0
        /\ \E out \in { dup_game(Heap, s) } :
               /\ graph' = out.graph
               /\ states' = out.states
               /\ last' = Call("dup_game", s, <<>>, out.ret)
    /\ UNCHANGED <<args, result, n, pts, vs, edges, pc, tmp, desc, aux>>

\* free_game(states[s]).
FreeGame ==
    /\ \E s \in Slots :
        /\ states[s].live
        /\ \E out \in { free_game(Heap, s) } :
               /\ graph' = out.graph
               /\ states' = out.states
               /\ last' = Call("free_game", s, <<>>, 0)
    /\ UNCHANGED <<args, result, n, pts, vs, edges, pc, tmp, desc, aux>>

NextPlay == PlayMove \/ DupGame \/ FreeGame

SpecPlay == InitPlay /\ [][NextPlay]_vars


\* ------------------------------------------------------------------ SpecMove: the move string format

\* The longest move, in pieces.
MaxPieces == 4

\* The pieces move strings are put together from: the solve marker, the
\* separator, a point token, a point token cut off before its '/', and a
\* character that starts no token.
Piece(kind, p, pt) == [kind |-> kind, p |-> p, x |-> pt.x, y |-> pt.y, d |-> pt.d]

Pieces ==
    { Piece("S", 0, Slot(0)),
      Piece(";", 0, Slot(0)),
      Piece("P", 1, Slot(2)),
      Piece("P", 2, Slot(1)),
      Piece("P", MinN, Slot(0)),
      Piece("P", 0 - 1, Slot(0)),
      Piece("P", 0, Point(Slot(0).x, Slot(0).y, 0)),
      Piece("cut", 0, Slot(0)),
      Piece("X", 0, Slot(0)) }

\* The text of a piece; a point token as interpret_move prints it.
PieceText(c) ==
    CASE c.kind = "S" -> <<"S">>
      [] c.kind = ";" -> <<";">>
      [] c.kind = "P" -> dragMove(c.p, Point(c.x, c.y, c.d))
      [] c.kind = "cut" ->
            <<"P">> \o Dec(c.p) \o <<":">> \o Dec(c.x) \o <<",">> \o Dec(c.y)
      [] OTHER -> <<"X">>

RECURSIVE MoveText(_)
MoveText(ps) ==
    IF ps = <<>> THEN <<>> ELSE PieceText(Head(ps)) \o MoveText(Tail(ps))

PieceSeqs == UNION { [1..k -> Pieces] : k \in 0..MaxPieces }

\* The state after new_game, with the pieces of the move about to be made.
InitMove ==
    /\ args \in PieceSeqs
    /\ result = <<>>
    /\ n = MinN
    /\ pts = <<>> /\ vs = <<>> /\ edges = {} /\ tmp = <<>> /\ aux = <<>>
    /\ pc = "play"
    /\ desc = SquareDesc
    /\ \E H \in { new_game(n, desc) } :
           /\ graph = H.graph
           /\ states = H.states
    /\ last = Call("new_game", 0, desc, 1)

\* execute_move on the first state with the text of the pieces.
FirstMove ==
    /\ last.op = "new_game"
    /\ ExecuteMove(1, MoveText(args))
    /\ UNCHANGED pc

\* A second move, on the state the first one returned: vertices 1 and 2
\* are dragged to their own circle slots.
PutBack ==
    /\ last.op = "execute_move" /\ last.src = 1 /\ last.ret # 0
    /\ ExecuteMove(last.ret, Both(ToSlot(1, 1), ToSlot(2, 2)))
    /\ UNCHANGED pc

NextMove == FirstMove \/ PutBack

SpecMove == InitMove /\ [][NextMove]_vars


\* ------------------------------------------------------------------ SpecDesc: a description from outside

\* The longest description, in characters.
MaxDescLen == 5

\* The characters descriptions are made of here: two vertex numbers in
\* range, one out of range for MinN vertices, the dash and the comma.
DescChars == { "0", "1", "4", "-", "," }

DescStrings == UNION { [1..k -> DescChars] : k \in 0..MaxDescLen }

\* A game description arrives from outside (a game ID typed by the user).
InitDesc ==
    /\ NoCross
    /\ n = MinN
    /\ pts = <<>> /\ vs = <<>> /\ edges = {} /\ tmp = <<>> /\ aux = <<>>
    /\ pc = "desc"
    /\ desc \in DescStrings
    /\ graph = NoGame /\ states = [r \in Slots |-> NoState] /\ last = NoCall

\* validate_desc(params, desc): the description is refused, or passed on
\* to new_game.
ValidateDesc ==
    /\ pc = "desc"
    /\ pc' = IF validate_desc(desc, 1, n) = NoError THEN "validated" ELSE "refused"
    /\ UNCHANGED <<args, result, n, pts, vs, edges, tmp, desc, aux, graph, states, last>>

\* new_game(me, params, desc) on a validated description, all assertions
\* passing.
LoadGame ==
    /\ pc = "validated"
    /\ decodeDesc(desc, 1, {}, n).ok
    /\ \E H \in { new_game(n, desc) } :
           /\ graph' = H.graph
           /\ states' = H.states
    /\ last' = Call("new_game", 0, desc, 1)
    /\ pc' = "play"
    /\ UNCHANGED <<args, result, n, pts, vs, edges, tmp, desc, aux>>

\* new_game on a validated description, with an assertion of new_game or
\* of addedge failing: the program aborts.
LoadAbort ==
    /\ pc = "validated"
    /\ ~decodeDesc(desc, 1, {}, n).ok
    /\ pc' = "abort"
    /\ UNCHANGED <<args, result, n, pts, vs, edges, tmp, desc, aux, graph, states, last>>

\* The loop of new_game in a build with NDEBUG, where assert() is empty,
\* on a description validate_desc accepted.
RECURSIVE decodeNoAssert(_, _, _)
decodeNoAssert(str, p, E) ==
    IF At(str, p) = NUL THEN E
    ELSE LET p1 == skipDigits(str, p)
             p2 == skipDigits(str, p1 + 1)
         IN  decodeNoAssert(str, IF At(str, p2) # NUL THEN p2 + 1 ELSE p2,
                            addedge(E, atoi(str, p), atoi(str, p1 + 1)))

\* new_game on a validated description that fails an assertion, in a build
\* with NDEBUG: the edge is added all the same.
LoadNoAssert ==
    /\ pc = "validated"
    /\ ~decodeDesc(desc, 1, {}, n).ok
    /\ \E H \in { new_game(n, desc) } :
           /\ graph' = [H.graph EXCEPT !.edges = decodeNoAssert(desc, 1, {})]
           /\ states' = H.states
    /\ last' = Call("new_game", 0, desc, 1)
    /\ pc' = "play"
    /\ UNCHANGED <<args, result, n, pts, vs, edges, tmp, desc, aux>>

NextDesc == ValidateDesc \/ LoadGame \/ LoadAbort \/ LoadNoAssert

SpecDesc == InitDesc /\ [][NextDesc]_vars


\* ------------------------------------------------------------------ claims

\* Exact geometry, independent of cross(): the sign of the orientation of r
\* against the directed line p-q, on the rationals (x/d, y/d).  Every factor
\* is multiplied by positive denominators only, so only the sign is used.
Sign(v) == IF v > 0 THEN 1 ELSE IF v < 0 THEN -1 ELSE 0

Orient(p, q, r) ==
    Sign(  (q.x * p.d - p.x * q.d) * (r.y * p.d - p.y * r.d)
         - (q.y * p.d - p.y * q.d) * (r.x * p.d - p.x * r.d) )

\* u/ud <= v/vd for positive denominators.
RatLeq(u, ud, v, vd) == u * vd <= v * ud

\* The closed intervals [p.c, q.c] and [r.c, s.c] of one coordinate overlap.
XOverlap(p, q, r, s) ==
    /\ \E a \in {p, q} : \E b \in {r, s} : RatLeq(a.x, a.d, b.x, b.d)
    /\ \E a \in {p, q} : \E b \in {r, s} : RatLeq(b.x, b.d, a.x, a.d)

YOverlap(p, q, r, s) ==
    /\ \E a \in {p, q} : \E b \in {r, s} : RatLeq(a.y, a.d, b.y, b.d)
    /\ \E a \in {p, q} : \E b \in {r, s} : RatLeq(b.y, b.d, a.y, a.d)

\* The closed segments a1a2 and b1b2 have a point in common: their bounding
\* boxes overlap and each segment straddles (or touches) the other's line.
SegmentsMeet(a1, a2, b1, b2) ==
    /\ XOverlap(a1, a2, b1, b2) /\ YOverlap(a1, a2, b1, b2)
    /\ Orient(a1, a2, b1) * Orient(a1, a2, b2) <= 0
    /\ Orient(b1, b2, a1) * Orient(b1, b2, a2) <= 0

\* C1 (as claimed): for all points with positive denominators, cross returns
\* true exactly when the closed segments a1a2 and b1b2 have a common point.
C1_CrossIsExact ==
    result # <<>> =>
        (result[1] <=> SegmentsMeet(args[1], args[2], args[3], args[4]))

\* C2 (as claimed): cross is symmetric under swapping the endpoints of either
\* segment and under swapping the two segments, zero-length segments included.
C2_CrossSymmetric ==
    result # <<>> =>
        /\ result[1] = cross(args[2], args[1], args[3], args[4])
        /\ result[1] = cross(args[1], args[2], args[4], args[3])
        /\ result[1] = cross(args[3], args[4], args[1], args[2])


\* Edges e and f share no endpoint.
Apart(e, f) == e[1] # f[1] /\ e[1] # f[2] /\ e[2] # f[1] /\ e[2] # f[2]

\* No two edges of E without a shared endpoint cross under cross() at the
\* positions P, whichever of the two is passed first.
CrossFree(E, P) ==
    \A e \in E : \A f \in E :
        Apart(e, f) => ~cross(P[e[1]], P[e[2]], P[f[1]], P[f[2]])

\* The degree of vertex v in the edge set E.
Degree(E, v) == Cardinality({ e \in E : e[1] = v \/ e[2] = v })

\* C3: after every accepted edge of the synthesis (and at its end) every
\* vertex has degree <= MAXDEGREE (and vs[] holds the degrees), no accepted
\* edge passes through a third point, and no two accepted edges without a
\* shared endpoint cross, under cross() and in exact geometry.
C3_SynthesisInvariant ==
    pc \in {"synth", "scramble"} =>
        /\ \A v \in 0..(n - 1) : Degree(edges, v) <= MAXDEGREE /\ vs[v] = Degree(edges, v)
        /\ \A e \in edges : e[1] < e[2] /\ e[2] < n
        /\ \A e \in edges : \A p \in 0..(n - 1) :
              (p # e[1] /\ p # e[2]) =>
                  /\ ~cross(pts[e[1]], pts[e[2]], pts[p], pts[p])
                  /\ ~SegmentsMeet(pts[e[1]], pts[e[2]], pts[p], pts[p])
        /\ CrossFree(edges, pts)
        /\ \A e \in edges : \A f \in edges :
              Apart(e, f) => ~SegmentsMeet(pts[e[1]], pts[e[2]], pts[f[1]], pts[f[2]])

\* C3 witness: the synthesis has ended for n = 6 with a vertex of degree
\* MAXDEGREE that only the degree bound keeps from a further edge: another
\* vertex, not adjacent to it, could be joined to it without meeting a
\* point or an edge.
C3_Witness ==
    /\ pc = "scramble" /\ n = 6
    /\ \E v \in 0..(n - 1) : \E u \in 0..(n - 1) :
          /\ u # v /\ vs[v] = MAXDEGREE /\ vs[u] < MAXDEGREE
          /\ ~isedge(edges, u, v)
          /\ edgeFits(pts, edges, n, v, u)

\* C4: the initial state new_game builds from a returned description (slot
\* 1: vertex i at circle slot i) has two edges without a shared endpoint
\* that cross under cross(), and the empty move on it gives completed =
\* FALSE.
C4_StartsCrossed ==
    (pc \in {"play", "moved", "solved"}) =>
        /\ states[1].live /\ states[1].pts = make_circle(n, COORDLIMIT(n))
        /\ graph.edges = renameEdges(edges, tmp)
        /\ \E e \in graph.edges : \E f \in graph.edges :
              /\ Apart(e, f)
              /\ cross(states[1].pts[e[1]], states[1].pts[e[2]],
                       states[1].pts[f[1]], states[1].pts[f[2]])
              /\ cross(states[1].pts[f[1]], states[1].pts[f[2]],
                       states[1].pts[e[1]], states[1].pts[e[2]])
        /\ ~states[1].completed
        /\ (last.op = "execute_move" /\ last.src = 1 /\ last.move = <<>>) =>
              (last.ret # 0 /\ ~states[last.ret].completed)

\* C4 witness: the empty move has been made on the initial state of a
\* generated game.
C4_Witness ==
    /\ pc = "moved" /\ last.op = "execute_move" /\ last.src = 1
    /\ last.move = <<>> /\ last.ret = 2 /\ states[2].pts = states[1].pts

\* C5: the aux string of a generated game, executed on the first state or on
\* one a player's move made from it, is accepted; the state returned has no
\* two edges without a shared endpoint that cross (under cross() and in
\* exact geometry), has completed, cheated and just_solved set, and holds at
\* circle slot tmp[i] the scattered point i moved by one half: (2x+1, 2y+1)
\* over 2.
C5_AuxSolves ==
    (pc = "solved") =>
        /\ last.op = "execute_move" /\ last.move = aux
        /\ last.ret # 0
        /\ states[last.ret].live
        /\ CrossFree(graph.edges, states[last.ret].pts)
        /\ \A e \in graph.edges : \A f \in graph.edges :
              Apart(e, f) =>
                  ~SegmentsMeet(states[last.ret].pts[e[1]], states[last.ret].pts[e[2]],
                                states[last.ret].pts[f[1]], states[last.ret].pts[f[2]])
        /\ states[last.ret].completed
        /\ states[last.ret].cheated
        /\ states[last.ret].just_solved
        /\ \A i \in 0..(n - 1) :
              states[last.ret].pts[tmp[i]] = Point(2 * pts[i].x + 1, 2 * pts[i].y + 1, 2)

\* C5 witness: the aux string has been executed on a state a drag made, in
\* which vertex 0 is off the circle, and the scrambling permutation is not
\* the identity.
C5_Witness ==
    /\ pc = "solved" /\ last.src = 2 /\ last.ret = 3
    /\ states[2].pts # states[1].pts
    /\ states[3].pts # states[2].pts
    /\ \E i \in 0..(n - 1) : tmp[i] # i


\* The input and the returned state of the execute_move call just made.
MoveIn == states[last.src]

MoveOut == states[last.ret]

Accepted == last.op = "execute_move" /\ last.ret # 0

\* No two edges of E without a shared endpoint have a common point at the
\* positions P, in exact geometry.
NoMeet(E, P) ==
    \A e \in E : \A f \in E :
        Apart(e, f) => ~SegmentsMeet(P[e[1]], P[e[2]], P[f[1]], P[f[2]])

\* No pair of edges without a shared endpoint crosses under cross(), each
\* pair taken as the completion check takes it: the later edge of the tree
\* order first.
NoCrossing(E, P) ==
    \A e \in E : \A f \in E :
        (edgecmp(e, f) /\ Apart(e, f)) => ~cross(P[f[1]], P[f[2]], P[e[1]], P[e[2]])

\* C6: for every accepted move, completed of the returned state equals
\* completed of the input state OR no two edges without a shared endpoint
\* cross at the new positions (under cross() as the check applies it, and in
\* exact geometry); so a state derived from a completed one is completed,
\* also when the move reintroduces crossings.
C6_CompletedSticky ==
    Accepted =>
        /\ MoveOut.completed = (MoveIn.completed \/ NoCrossing(graph.edges, MoveOut.pts))
        /\ MoveOut.completed = (MoveIn.completed \/ NoMeet(graph.edges, MoveOut.pts))
        /\ MoveIn.completed => MoveOut.completed

\* A move on a completed state that brings a crossing back.
C6_Witness ==
    /\ Accepted
    /\ MoveIn.completed /\ MoveOut.completed
    /\ ~NoCrossing(graph.edges, MoveOut.pts)
    /\ NoCrossing(graph.edges, MoveIn.pts)

\* C7: a call of execute_move that returns NULL leaves the input state (its
\* points and its completed, cheated and just_solved flags), the edge set
\* and the reference count of the graph as they were before the call, and
\* every other state too.
C7_RejectedMoveChangesNothing ==
    [][ (last'.op = "execute_move" /\ last'.ret = 0) =>
            /\ states'[last'.src].live
            /\ states'[last'.src].pts = states[last'.src].pts
            /\ states'[last'.src].completed = states[last'.src].completed
            /\ states'[last'.src].cheated = states[last'.src].cheated
            /\ states'[last'.src].just_solved = states[last'.src].just_solved
            /\ graph'.edges = graph.edges
            /\ graph'.refcount = graph.refcount
            /\ ~graph'.freed
            /\ states' = states ]_vars

\* A rejected move whose first record is well formed and names a new
\* position for its vertex, on a state that shares its graph.
C7_Witness ==
    /\ last.op = "execute_move" /\ last.ret = 0
    /\ graph.refcount >= 2
    /\ At(last.move, 1) = "P"
    /\ \E sc \in { sscanfPoint(last.move, 2) } :
           /\ sc.ok /\ sc.p >= 0 /\ sc.p < n /\ sc.d > 0
           /\ MoveIn.pts[sc.p] # Point(sc.x, sc.y, sc.d)

\* The move string holds a solve marker.
HasMarker(move) == \E i \in 1..Len(move) : move[i] = "S"

\* The square graph decoded from SquareDesc.
SquareEdges == { <<0, 1>>, <<0, 2>>, <<1, 3>>, <<2, 3>> }

\* Vertex v at circle slot t[v + 1].
Arrangement(t) == [v \in 0..(MinN - 1) |-> Slot(t[v + 1])]

\* Two edges cross at the positions P: under cross() in both argument
\* orders, and in exact geometry.
EdgesCross(P, e, f) ==
    /\ cross(P[e[1]], P[e[2]], P[f[1]], P[f[2]])
    /\ cross(P[f[1]], P[f[2]], P[e[1]], P[e[2]])
    /\ SegmentsMeet(P[e[1]], P[e[2]], P[f[1]], P[f[2]])

\* C8, as stated: on the square graph, a move that ends with vertex i at
\* slot i gives completed = TRUE, also when it puts vertices 1 and 2 back
\* from the slot order 0,2,1,3; and in the slot order 0,2,1,3 edges 0-1 and
\* 2-3 cross and completed = FALSE.
C8_AsStated ==
    (Accepted /\ graph.edges = SquareEdges) =>
        /\ MoveOut.pts = Arrangement(<<0, 1, 2, 3>>) => MoveOut.completed
        /\ MoveOut.pts = Arrangement(<<0, 2, 1, 3>>) =>
               /\ EdgesCross(MoveOut.pts, <<0, 1>>, <<2, 3>>)
               /\ ~MoveOut.completed
        /\ (MoveIn.pts = Arrangement(<<0, 2, 1, 3>>)
               /\ MoveOut.pts = Arrangement(<<0, 1, 2, 3>>)) => MoveOut.completed

\* C8, amended: on the square graph with vertex i at slot i edges 0-2 and
\* 1-3 (the diagonals) cross and completed = FALSE; in the slot order
\* 0,2,1,3 edges 0-1 and 2-3 cross and completed = FALSE; and the move that
\* puts vertices 1 and 2 back from there gives completed = FALSE.
C8_SquareScenario ==
    /\ ~graph.freed => graph.edges = SquareEdges
    /\ Accepted =>
        /\ MoveOut.pts = Arrangement(<<0, 1, 2, 3>>) =>
               /\ EdgesCross(MoveOut.pts, <<0, 2>>, <<1, 3>>)
               /\ ~MoveOut.completed
        /\ MoveOut.pts = Arrangement(<<0, 2, 1, 3>>) =>
               /\ EdgesCross(MoveOut.pts, <<0, 1>>, <<2, 3>>)
               /\ ~MoveOut.completed
        /\ (MoveIn.pts = Arrangement(<<0, 2, 1, 3>>)
               /\ MoveOut.pts = Arrangement(<<0, 1, 2, 3>>)) => ~MoveOut.completed

\* The second arrangement was reached and vertices 1 and 2 were put back.
C8_Witness ==
    /\ Accepted
    /\ states[1].pts = Arrangement(<<0, 1, 2, 3>>)
    /\ MoveIn.pts = Arrangement(<<0, 2, 1, 3>>) /\ ~MoveIn.completed
    /\ MoveOut.pts = Arrangement(<<0, 1, 2, 3>>)

\* C9, as stated: a move from completed = FALSE to completed = TRUE gives
\* just_solved = TRUE with or without a solve marker, and an accepted move
\* without a solve marker on a completed state gives just_solved = FALSE.
C9_AsStated ==
    Accepted =>
        /\ (~MoveIn.completed /\ MoveOut.completed) => MoveOut.just_solved
        /\ (MoveIn.completed /\ ~HasMarker(last.move)) => ~MoveOut.just_solved

\* C9, amended: just_solved of the returned state is TRUE exactly when the
\* move carries a solve marker; a move without one that completes the puzzle
\* gives just_solved = FALSE, and so does every accepted move without one on
\* a state that has just_solved = TRUE.
C9_JustSolvedIsMarker ==
    Accepted =>
        /\ MoveOut.just_solved = HasMarker(last.move)
        /\ (~MoveIn.completed /\ MoveOut.completed /\ ~HasMarker(last.move))
               => ~MoveOut.just_solved
        /\ (MoveIn.just_solved /\ ~HasMarker(last.move)) => ~MoveOut.just_solved

\* A move without a solve marker completed the puzzle.
C9_Witness ==
    /\ Accepted
    /\ ~MoveIn.completed /\ MoveOut.completed
    /\ ~HasMarker(last.move) /\ last.move # <<>>
    /\ ~MoveOut.just_solved

\* A point token P<i>:<x>,<y>/<d> with 0 <= i < n and d > 0.
ValidToken(c) == c.kind = "P" /\ c.p >= 0 /\ c.p < n /\ c.d > 0

IsPiece(ps, i, kind) == i <= Len(ps) /\ ps[i].kind = kind

\* The position after an optional piece of the given kind at position i.
SkipPiece(ps, i, kind) == IF IsPiece(ps, i, kind) THEN i + 1 ELSE i

\* ps[i..] is empty, or ';' and a valid token, repeated.
RECURSIVE MoreTokens(_, _)
MoreTokens(ps, i) ==
    \/ i > Len(ps)
    \/ /\ IsPiece(ps, i, ";")
       /\ i + 1 <= Len(ps) /\ ValidToken(ps[i + 1])
       /\ MoreTokens(ps, i + 2)

\* ps[i..] is zero or more valid tokens separated by ';'.
TokenList(ps, i) ==
    \/ i > Len(ps)
    \/ ValidToken(ps[i]) /\ MoreTokens(ps, i + 1)

\* The format as stated: zero or one leading 'S', optionally followed by
\* ';', then zero or more valid tokens separated by ';'.
StatedFormat(ps) ==
    IF IsPiece(ps, 1, "S")
    THEN TokenList(ps, SkipPiece(ps, 2, ";"))
    ELSE TokenList(ps, 1)

\* ps[i..] is zero or more groups, each an optional 'S', an optional ';'
\* after that 'S', one valid token, and an optional ';'.
RECURSIVE Groups(_, _)
GroupToken(ps, j) ==
    /\ j <= Len(ps) /\ ValidToken(ps[j])
    /\ Groups(ps, SkipPiece(ps, j + 1, ";"))

Groups(ps, i) ==
    \/ i > Len(ps)
    \/ IF IsPiece(ps, i, "S")
       THEN GroupToken(ps, SkipPiece(ps, i + 1, ";"))
       ELSE GroupToken(ps, i)

\* The first move of SpecMove has been made.
FirstMoveMade == last.op = "execute_move" /\ last.src = 1

\* C10, as stated: execute_move accepts a move exactly when it has the
\* stated format; so 'S' alone is accepted and sets cheated, and a move with
\* an 'S' after a point token is rejected.
C10_AsStated ==
    FirstMoveMade =>
        /\ (last.ret # 0) = StatedFormat(args)
        /\ args = << Piece("S", 0, Slot(0)) >> => (last.ret # 0 /\ MoveOut.cheated)
        /\ (\E i, j \in 1..Len(args) : i < j /\ ValidToken(args[i]) /\ args[j].kind = "S")
               => last.ret = 0

\* C10, amended: execute_move accepts a move exactly when it is zero or
\* more groups, each an optional 'S' (with an optional ';' after it)
\* followed by one valid point token and an optional ';'.  A move that is
\* 'S' alone, or that ends in 'S', is rejected; an accepted move sets
\* cheated exactly when it holds an 'S' (the first state is not cheated).
C10_MoveFormat ==
    FirstMoveMade =>
        /\ (last.ret # 0) = Groups(args, 1)
        /\ args = << Piece("S", 0, Slot(0)) >> => last.ret = 0
        /\ (args # <<>> /\ args[Len(args)].kind = "S") => last.ret = 0
        /\ last.ret # 0 => (MoveOut.cheated = (\E i \in 1..Len(args) : args[i].kind = "S"))

\* An accepted move with a solve marker after a point token.
C10_Witness ==
    /\ FirstMoveMade /\ last.ret # 0
    /\ \E i, j \in 1..Len(args) : i < j /\ ValidToken(args[i]) /\ args[j].kind = "S"

\* The pairs a-b with 0 <= a < b < nn.
Pairs(nn) == { e \in (0..(nn - 1)) \X (0..(nn - 1)) : e[1] < e[2] }

\* The first edge of S in the order by (a, b).
FirstEdge(S) == CHOOSE e \in S : \A f \in S \ {e} : edgecmp(e, f)

\* The text a-b,a-b,... of the edges of S, ascending by (a, b).
RECURSIVE WriteEdges(_)
WriteEdges(S) ==
    IF S = {} THEN <<>>
    ELSE Dec(FirstEdge(S)[1]) \o <<"-">> \o Dec(FirstEdge(S)[2])
         \o (IF S = {FirstEdge(S)} THEN <<>> ELSE <<",">>)
         \o WriteEdges(S \ {FirstEdge(S)})

\* The generated edge set with vertex v renamed to tmp[v].
RenamedEdges ==
    { e \in Pairs(n) : \E g \in edges : {e[1], e[2]} = {tmp[g[1]], tmp[g[2]]} }

\* new_game_desc has just returned, or new_game has just decoded what it
\* returned.
DescReturned == pc \in {"encoded", "play"}

\* C11: the description new_game_desc returns is the list, ascending by
\* (a, b) and separated by commas, of tokens a-b with 0 <= a < b < n;
\* validate_desc accepts it; new_game decodes it without a failed assertion
\* to the generated edge set renamed by the scrambling permutation; and the
\* decoded set written out in that order is the same text.
C11_DescRoundTrip ==
    DescReturned =>
        /\ validate_desc(desc, 1, n) = NoError
        /\ \E D \in { decodeDesc(desc, 1, {}, n) } :
               /\ D.ok
               /\ D.edges \subseteq Pairs(n)
               /\ D.edges = RenamedEdges
               /\ WriteEdges(D.edges) = desc
        /\ Cardinality(RenamedEdges) = Cardinality(edges)
        /\ desc # <<>>
        /\ pc = "play" => graph.edges = RenamedEdges

\* new_game has decoded a description whose edges the scrambling put in
\* another order than the one of the generator's edge tree.
C11_Witness ==
    /\ pc = "play"
    /\ graph.edges = RenamedEdges
    /\ encodeDescUnsorted(edges, tmp) # desc
    /\ \E e \in edges : tmp[e[1]] > tmp[e[2]]

\* The live game_state objects; each holds a pointer to the one graph
\* new_game made.
LiveStates == { s \in Slots : states[s].live }

\* C12: over any sequence of dup_game, execute_move (accepted or rejected)
\* and free_game on live states after new_game, the refcount of the graph
\* is the number of live states, its edge set is the one new_game decoded,
\* the graph is destroyed exactly when no live state is left, and no live
\* state points to a destroyed graph.
C12_RefcountIsLiveStates ==
    /\ ~graph.freed =>
           /\ graph.refcount = Cardinality(LiveStates)
           /\ graph.refcount >= 1
           /\ graph.edges = decodeDesc(desc, 1, {}, n).edges
    /\ graph.freed <=> LiveStates = {}
    /\ graph.freed => graph.refcount = 0
    /\ \A s \in LiveStates : ~graph.freed

\* The graph went with the last state, which was not the one new_game made,
\* right after a free_game.
C12_Witness ==
    /\ last.op = "free_game" /\ last.src # 1
    /\ graph.freed
    /\ LiveStates = {}

\* The edge u-v could be added at the positions pts: u and v are not
\* adjacent, both have degree below MAXDEGREE, and the segment between them
\* has no common point with a third point or with an edge not incident to
\* u or v, in exact geometry.
Addable(u, v) ==
    /\ u # v /\ ~isedge(edges, u, v)
    /\ Degree(edges, u) < MAXDEGREE /\ Degree(edges, v) < MAXDEGREE
    /\ \A p \in 0..(n - 1) :
          (p # u /\ p # v) => ~SegmentsMeet(pts[u], pts[v], pts[p], pts[p])
    /\ \A e \in edges :
          (e[1] # u /\ e[1] # v /\ e[2] # u /\ e[2] # v)
              => ~SegmentsMeet(pts[u], pts[v], pts[e[1]], pts[e[2]])

\* C13: the synthesis loop ends; a round that does not end it adds exactly
\* one edge, which was not there; there are never more than MAXDEGREE*n/2
\* edges; and when the loop has ended no edge can be added, in exact
\* geometry and under the tests of the loop with either vertex first.
C13_SynthesisEndsMaximal ==
    /\ <>(pc = "scramble")
    /\ [][ (pc = "synth" /\ pc' = "synth") =>
               \E e \in edges' : e \notin edges /\ edges' = edges \cup {e} ]_vars
    /\ [](2 * Cardinality(edges) <= MAXDEGREE * n)
    /\ [](pc = "scramble" =>
            \A u \in 0..(n - 1) : \A v \in 0..(n - 1) :
                /\ ~Addable(u, v)
                /\ (u # v /\ ~isedge(edges, u, v)
                        /\ vs[u] < MAXDEGREE /\ vs[v] < MAXDEGREE)
                       => ~edgeFits(pts, edges, n, u, v))

\* The loop has ended although two vertices that are not adjacent have
\* degree below MAXDEGREE: the points or the edges between them stop every
\* further edge, not the degree bound.
C13_Witness ==
    /\ pc = "scramble"
    /\ \E u \in 0..(n - 1) : \E v \in 0..(n - 1) :
          /\ u # v /\ ~isedge(edges, u, v)
          /\ vs[u] < MAXDEGREE /\ vs[v] < MAXDEGREE
          /\ ~Addable(u, v)

\* The permutations of the nn vertices.
VertexPerms(nn) ==
    { t \in [0..(nn - 1) -> 0..(nn - 1)] :
        \A i \in 0..(nn - 1) : \E j \in 0..(nn - 1) : t[j] = i }

\* The circle layout with vertex v at slot t[v].
CircleLayout(t) == [v \in 0..(n - 1) |-> make_circle(n, COORDLIMIT(n))[t[v]]]

\* C14: for the edge set the synthesis ends with, some permutation of the
\* vertices gives a circle layout in which two edges without a shared
\* endpoint cross; and with a random source that keeps drawing every
\* permutation the scrambling loop is left.
C14_ScramblerCanFinish ==
    /\ [](pc = "scramble" =>
            \E t \in VertexPerms(n) : \E e \in edges : \E f \in edges :
                Apart(e, f) /\ EdgesCross(CircleLayout(t), e, f))
    /\ (pc = "scramble") ~> (pc = "encode")

\* The loop goes on after a draw whose layout has no crossing.
C14_Witness ==
    /\ pc = "scramble"
    /\ tmp # [i \in 0..(n - 1) |-> i]
    /\ \A e \in edges : \A f \in edges :
          Apart(e, f) => ~EdgesCross(CircleLayout(tmp), e, f)

\* C15: a description validate_desc accepts is decoded by new_game with no
\* assertion failing, and the decoded graph has no self-loop (a set of
\* edges has no duplicates).
C15_ValidatedDecodes ==
    /\ pc = "validated" => decodeDesc(desc, 1, {}, n).ok
    /\ pc # "abort"
    /\ pc = "play" => \A e \in graph.edges : e[1] # e[2]

=============================================================================
